---------------------------- MODULE Spec2Model ----------------------------
(***************************************************************************)
(* German Text Simplifier browser extension.                               *)
(*                                                                         *)
(* Content script (class GermanTextSimplifier): scans the page for German  *)
(* text nodes, simplifies them in batches of five through a remote         *)
(* service with an in-memory cache, and can restore the original texts.    *)
(* Background service worker (class BackgroundService): serves simplify    *)
(* requests with its own insertion-ordered cache, size-limited on write    *)
(* and trimmed by an hourly alarm.                                         *)
(*                                                                         *)
(* A text is a sequence of UTF-16 code units, as a JavaScript string is.   *)
(***************************************************************************)
EXTENDS Integers, Sequences, FiniteSets, TLC

(***************************************************************************)
(* Strings                                                                 *)
(***************************************************************************)

\* Code units that String.prototype.trim removes (WhiteSpace and
\* LineTerminator of ECMAScript).
WhiteSpaceChars ==
    {9, 10, 11, 12, 13, 32, 160, 5760, 8232, 8233, 8239, 8287, 12288, 65279}
        \cup (8192 .. 8202)

RECURSIVE TrimStart(_)
TrimStart(s) ==
    IF s = <<>> THEN <<>>
    ELSE IF Head(s) \in WhiteSpaceChars THEN TrimStart(Tail(s))
    ELSE s

RECURSIVE TrimEnd(_)
TrimEnd(s) ==
    IF s = <<>> THEN <<>>
    ELSE IF s[Len(s)] \in WhiteSpaceChars THEN TrimEnd(SubSeq(s, 1, Len(s) - 1))
    ELSE s

\* String.prototype.trim
Trim(s) == TrimEnd(TrimStart(s))

\* The regular expression is matched with the i flag: the ASCII letters
\* are compared without case.
LowerCase(c) == IF c >= 65 /\ c <= 90 THEN c + 32 ELSE c

\* text.includes(word), ignoring ASCII case
ContainsWord(s, w) ==
    \E i \in 1 .. (Len(s) - Len(w) + 1) :
        \A j \in 1 .. Len(w) : LowerCase(s[i + j - 1]) = LowerCase(w[j])

\* the character class of germanIndicators: a-umlaut, o-umlaut, u-umlaut,
\* sharp s, and the three capital umlauts
GermanChars == {228, 246, 252, 223, 196, 214, 220}

\* the alternatives der|die|das|und|ist|nicht|werden|sein
GermanWords ==
    { <<100, 101, 114>>, <<100, 105, 101>>, <<100, 97, 115>>,
      <<117, 110, 100>>, <<105, 115, 116>>,
      <<110, 105, 99, 104, 116>>,
      <<119, 101, 114, 100, 101, 110>>,
      <<115, 101, 105, 110>> }

\* GermanTextSimplifier.isLikelyGerman
isLikelyGerman(text) ==
    \/ \E i \in 1 .. Len(text) : text[i] \in GermanChars
    \/ \E w \in GermanWords : ContainsWord(text, w)

(***************************************************************************)
(* hashText: hash = ((hash << 5) - hash) + char; hash = hash & hash, that  *)
(* is 31 * hash + char wrapped to a signed 32-bit integer at every step.   *)
(* The 32-bit word is kept as two 16-bit halves <<high, low>> so that no   *)
(* intermediate value leaves the range of the model checker's integers.    *)
(***************************************************************************)

Half == 65536

HashStep(h, char) ==
    LET lo == 31 * h[2] + char
        hi == 31 * h[1] + (lo \div Half)
    IN  << hi % Half, lo % Half >>

RECURSIVE HashFrom(_, _)
HashFrom(h, s) ==
    IF s = <<>> THEN h ELSE HashFrom(HashStep(h, Head(s)), Tail(s))

\* the 32-bit word is negative as a signed integer
IsNegative32(h) == h[1] >= 32768

\* the magnitude of the signed value, as an unsigned 32-bit word
Magnitude32(h) ==
    IF IsNegative32(h)
    THEN << (65535 - h[1] + (IF h[2] = 0 THEN 1 ELSE 0)) % Half,
            (Half - h[2]) % Half >>
    ELSE h

\* a digit of Number.prototype.toString(36): 0-9, then a-z
Digit36(d) == IF d < 10 THEN 48 + d ELSE 97 + (d - 10)

\* the digits of an unsigned word in radix 36, most significant first
RECURSIVE Digits36(_)
Digits36(u) ==
    LET qhi == u[1] \div 36
        mid == (u[1] % 36) * Half + u[2]
        qlo == mid \div 36
        r   == mid % 36
        q   == << qhi, qlo >>
    IN  IF q = <<0, 0>> THEN << Digit36(r) >>
        ELSE Append(Digits36(q), Digit36(r))

\* hash.toString(36)
ToString36(h) ==
    IF IsNegative32(h) THEN <<45>> \o Digits36(Magnitude32(h))
    ELSE Digits36(h)

\* GermanTextSimplifier.hashText and BackgroundService.hashText (the same
\* function in both classes)
hashText(text) == ToString36(HashFrom(<<0, 0>>, text))

\* `${mode}:${this.hashText(text)}`: the mode and the hash joined by a
\* colon, kept as a pair (no mode contains a colon).
CacheKey(mode, text) == << mode, hashText(text) >>


(***************************************************************************)
(* Bounds of the model and the texts of the page                           *)
(***************************************************************************)

\* text nodes of the page
NumNodes == 2

\* simplifyPage invocations accepted since the page was loaded
MaxRuns == 2

Nodes == 1 .. NumNodes
RunIds == 1 .. MaxRuns

\* message.mode: the popup sends 'easy' or 'light'
Modes == {"easy", "light"}

\* "Das ist ein Haus Aa"
TextHaus ==
    <<68, 97, 115, 32, 105, 115, 116, 32, 101, 105, 110, 32,
      72, 97, 117, 115, 32, 65, 97>>

\* the same sentence as the page's markup holds it, between a line break
\* with indentation and a trailing blank
TextHausPadded == <<10, 32, 32>> \o TextHaus \o <<32>>

\* "Hallo Welt": too short to be simplified
TextShort == <<72, 97, 108, 108, 111, 32, 87, 101, 108, 116>>

\* "Das Haus ist da.": what the remote service makes of a sentence
TextSimple ==
    <<68, 97, 115, 32, 72, 97, 117, 115, 32, 105, 115, 116, 32, 100, 97, 46>>

\* textContent values a text node of the page may start with
PageTexts == {TextHausPadded, TextShort}

\* element names of the page: the parent of a text node
PageTags == {"P", "SCRIPT"}

\* "Das ist ein Ei.": a sentence of MinTextLength code units
TextFifteen ==
    <<68, 97, 115, 32, 105, 115, 116, 32, 101, 105, 110, 32, 69, 105, 46>>

\* " Das ist ein E. ": a sentence of one code unit less, between blanks
TextFourteenPadded ==
    <<32, 68, 97, 115, 32, 105, 115, 116, 32, 101, 105, 110, 32, 69, 46, 32>>

\* "Hello world, how are you": no German letter and no German word
TextEnglish ==
    <<72, 101, 108, 108, 111, 32, 119, 111, 114, 108, 100, 44, 32,
      104, 111, 119, 32, 97, 114, 101, 32, 121, 111, 117>>

\* "Grüße aus München": German letters and none of the words
TextUmlaut ==
    <<71, 114, 252, 223, 101, 32, 97, 117, 115, 32,
      77, 252, 110, 99, 104, 101, 110>>

\* a line break with indentation: the text node between two elements
TextBlank == <<10, 32, 32>>

\* textContent values of the text nodes of the pages that are scanned
ScanTexts ==
    { TextHausPadded, TextShort, TextFifteen, TextFourteenPadded,
      TextEnglish, TextUmlaut, TextBlank }

\* the elements above the parent element of a text node: none but
\* document.body, or an OBJECT whose fallback content the node is part of
ScanAncestors == { <<>>, <<"OBJECT">> }

\* the parents whose text is skipped
SkippedTags == {"SCRIPT", "STYLE", "NOSCRIPT", "IFRAME", "OBJECT", "EMBED"}

\* the minimum trimmed length of a text that is simplified
MinTextLength == 15

\* const batchSize = 5
batchSize == 5

(***************************************************************************)
(* The remote service: POST /v1/simplify.  A response is a failure (the    *)
(* fetch rejects or the status is not 200) or a 200 with an output, which  *)
(* may be empty, the input itself, or a simplified text.                   *)
(***************************************************************************)
RemoteOutputs(input) == {<<>>, input, TextSimple}

Responses(input) ==
    {[ok |-> FALSE, output |-> <<>>]}
        \cup {[ok |-> TRUE, output |-> o] : o \in RemoteOutputs(input)}

(***************************************************************************)
(* Maps (JavaScript Map, plain object) as functions                        *)
(***************************************************************************)
EmptyMap == [x \in {} |-> <<>>]

Put(m, k, v) == [x \in DOMAIN m \cup {k} |-> IF x = k THEN v ELSE m[x]]

\* chrome.storage.local holds no translationCache record
NoRecord == [present |-> FALSE, entries |-> EmptyMap]

\* chrome.storage.local holds the translationCache record with these entries
Record(entries) == [present |-> TRUE, entries |-> entries]

ZeroStats == [textsSimplified |-> 0, cacheHits |-> 0, errors |-> 0]


(***************************************************************************)
(* State                                                                   *)
(***************************************************************************)
VARIABLES
    tag,            \* node.parentElement.tagName of every text node
    ancestors,      \* the tagName of every element above that parent
                    \* element, nearest first, up to document.body
    text,           \* node.textContent of every text node
    originalTexts,  \* GermanTextSimplifier.originalTexts: node -> text
    isActive,       \* GermanTextSimplifier.isActive
    cache,          \* GermanTextSimplifier.cache: key -> text
    stats,          \* GermanTextSimplifier.stats
    runs,           \* the simplifyPage invocations that are executing,
                    \* in the order they were accepted
    storage,        \* chrome.storage.local: the translationCache record
    loading,        \* the constructor's loadFromStorage: pending or done,
                    \* and the record its chrome.storage.local.get read
    page,           \* history: the texts of the page as it was loaded
    last,           \* history: the simplifyPage invocation that returned
                    \* last (stage 1), and restoreOriginal after it (stage
                    \* 2), and how its remote calls went (kind)
    accepted,       \* history: simplifyPage invocations accepted so far
    reply,          \* the response to the last simplify message answered
    storedStats,    \* chrome.storage.local: the stats record
    cleared,        \* history: the keys that were in a cache or in the
                    \* translationCache record when the popup cleared the
                    \* cache, and that no remote call has set again since
    statsReply      \* the response to the last getStats message answered

csVars ==
    << tag, ancestors, text, originalTexts, isActive, cache, stats, runs,
       storage, loading, page, last, accepted, reply, storedStats, cleared,
       statsReply >>

(***************************************************************************)
(* A simplifyPage invocation: its position (pc: batching while a batch is  *)
(* awaited, saving while saveToStorage is awaited), its arguments and      *)
(* locals (mode, textNodes as nodes, the loop variable i, the cacheObj     *)
(* snapshot of saveToStorage), the simplifyNode calls of the current batch *)
(* (calls: node -> position and the local originalText), and history: how  *)
(* each unit was settled and the text that was written to it (outcome),    *)
(* what happened while it was executing (another invocation executing,     *)
(* restoreOriginal, loadFromStorage settling), and the run it follows      *)
(* (after: the kind of the run that returned and was restored before this  *)
(* one was accepted with the same mode, units: how many units that run     *)
(* had).                                                                   *)
(***************************************************************************)
NewRun ==
    [ pc |-> "batching", mode |-> "", nodes |-> <<>>, i |-> 0,
      calls |-> EmptyMap, snapshot |-> EmptyMap,
      outcome |-> EmptyMap,
      overlapped |-> FALSE, restored |-> FALSE, reloaded |-> FALSE,
      after |-> "none", units |-> 0 ]

\* no simplifyPage invocation has returned yet, or one was accepted since
NoLast ==
    [ stage |-> 0, mode |-> "", nodes |-> <<>>, kind |-> "none",
      stats |-> ZeroStats ]

NoReply == [success |-> FALSE, error |-> "none"]

\* no getStats message has been answered yet
NoStatsReply == [success |-> FALSE, stats |-> ZeroStats]

\* chrome.storage.local holds no stats record
NoStoredStats == [present |-> FALSE, stats |-> ZeroStats]

\* how a unit was settled: from the cache (hit), by a remote call that
\* returned a new text (applied), by a remote call that returned nothing
\* new (unchanged), or by a remote call that failed (failed)
Outcome(kind, value) == [kind |-> kind, value |-> value]

(***************************************************************************)
(* extractTextNodes: the text nodes the TreeWalker accepts, in document    *)
(* order.                                                                  *)
(***************************************************************************)
\* acceptNode with the minimum length asked of the text as it is, not of
\* the trimmed text
acceptNodeUntrimmed(textContent, parentTag) ==
    /\ Trim(textContent) # <<>>
    /\ parentTag \notin SkippedTags
    /\ Len(textContent) >= MinTextLength
    /\ isLikelyGerman(textContent)

acceptNode(textContent, parentTag) ==
    /\ Trim(textContent) # <<>>
    /\ parentTag \notin SkippedTags
    /\ Len(Trim(textContent)) >= MinTextLength
    /\ isLikelyGerman(textContent)

RECURSIVE WalkFrom(_, _, _)
WalkFrom(n, txt, tg) ==
    IF n > Len(txt) THEN <<>>
    ELSE IF acceptNode(txt[n], tg[n]) THEN <<n>> \o WalkFrom(n + 1, txt, tg)
    ELSE WalkFrom(n + 1, txt, tg)

extractTextNodes(txt, tg) == WalkFrom(1, txt, tg)

\* simplifyNodeStart without this.stats.textsSimplified++ on a cache hit
simplifyNodeStartHitOnly(S, n) ==
    LET originalText == Trim(S.text[n])
        cacheKey == CacheKey(S.run.mode, originalText)
        S1 == [S EXCEPT !.originalTexts = Put(@, n, originalText)]
    IN  IF cacheKey \in DOMAIN S.cache
        THEN [S1 EXCEPT
                !.text[n] = S.cache[cacheKey],
                !.stats.cacheHits = @ + 1,
                !.run.calls = Put(@, n, [pc |-> "settled",
                                         originalText |-> originalText]),
                !.run.outcome = Put(@, n, Outcome("hit", S.cache[cacheKey]))]
        ELSE [S1 EXCEPT
                !.run.calls = Put(@, n, [pc |-> "flight",
                                         originalText |-> originalText])]

(***************************************************************************)
(* simplifyNode up to its first await.  S carries what the synchronous     *)
(* code reads and writes: text, originalTexts, stats, cache and the run.   *)
(***************************************************************************)
simplifyNodeStart(S, n) ==
    LET originalText == Trim(S.text[n])
        cacheKey == CacheKey(S.run.mode, originalText)
        S1 == [S EXCEPT !.originalTexts = Put(@, n, originalText)]
    IN  IF cacheKey \in DOMAIN S.cache
        THEN [S1 EXCEPT
                !.text[n] = S.cache[cacheKey],
                !.stats.cacheHits = @ + 1,
                !.stats.textsSimplified = @ + 1,
                !.run.calls = Put(@, n, [pc |-> "settled",
                                         originalText |-> originalText]),
                !.run.outcome = Put(@, n, Outcome("hit", S.cache[cacheKey]))]
        ELSE [S1 EXCEPT
                !.run.calls = Put(@, n, [pc |-> "flight",
                                         originalText |-> originalText])]

\* processBatch: nodes.map(node => this.simplifyNode(node, mode))
RECURSIVE processBatchStart(_, _)
processBatchStart(S, batch) ==
    IF batch = <<>> THEN S
    ELSE processBatchStart(simplifyNodeStart(S, Head(batch)), Tail(batch))

InFlight(run) == {n \in DOMAIN run.calls : run.calls[n].pc = "flight"}

Min(a, b) == IF a < b THEN a ELSE b

\* saveToStorage up to its await: cacheObj = Object.fromEntries(this.cache)
saveToStorageStart(S) ==
    [S EXCEPT !.run.pc = "saving", !.run.snapshot = S.cache,
              !.run.calls = EmptyMap]

\* saveToStorage with the rejection of its set not caught
saveToStorageUncaught(record, snapshot, saved) ==
    [ record |-> IF saved THEN Record(snapshot) ELSE record,
      raised |-> ~saved ]

\* saveToStorage from the settling of its chrome.storage.local.set on: the
\* record the storage holds then, and whether saveToStorage raises.  The
\* set writes the snapshot, or it rejects and the catch block logs that.
saveToStorageSettle(record, snapshot, saved) ==
    [ record |-> IF saved THEN Record(snapshot) ELSE record,
      raised |-> FALSE ]

\* The loop of simplifyPage from the batch at index i on: every batch whose
\* units are all cache hits completes without suspending, so the loop runs
\* on to the first batch with a remote call in flight, or to saveToStorage.
RECURSIVE simplifyPageLoop(_)
simplifyPageLoop(S) ==
    IF S.run.i >= Len(S.run.nodes) THEN saveToStorageStart(S)
    ELSE
        LET batch == SubSeq(S.run.nodes, S.run.i + 1,
                            Min(S.run.i + batchSize, Len(S.run.nodes)))
            S1 == processBatchStart([S EXCEPT !.run.calls = EmptyMap], batch)
        IN  IF InFlight(S1.run) # {} THEN [S1 EXCEPT !.run.pc = "batching"]
            ELSE simplifyPageLoop([S1 EXCEPT !.run.i = @ + batchSize])

\* callSimplifyAPI: the output of a 200 response, and the text itself when
\* the output is empty, the status is not 200 or the fetch rejects
callSimplifyAPI(txt, resp) ==
    IF resp.ok
    THEN (IF resp.output # <<>> THEN resp.output ELSE txt)
    ELSE txt

\* simplifyNodeFinish without this.cache.set(cacheKey, simplifiedText)
simplifyNodeFinishNoCacheSet(S, n, resp) ==
    LET originalText == S.run.calls[n].originalText
        simplifiedText == callSimplifyAPI(originalText, resp)
        S1 == [S EXCEPT !.run.calls[n].pc = "settled"]
    IN  IF simplifiedText # <<>> /\ simplifiedText # originalText
        THEN [S1 EXCEPT
                !.text[n] = simplifiedText,
                !.stats.textsSimplified = @ + 1,
                !.run.outcome = Put(@, n, Outcome("applied", simplifiedText))]
        ELSE [S1 EXCEPT
                !.text[n] = originalText,
                !.run.outcome =
                    Put(@, n, Outcome(IF resp.ok THEN "unchanged"
                                      ELSE "failed", originalText))]

\* simplifyNodeFinish with a cache key whose hash starts from the number
\* of entries the cache holds rather than from 0
simplifyNodeFinishKeyedByCache(S, n, resp) ==
    LET originalText == S.run.calls[n].originalText
        cacheKey == << S.run.mode,
                       ToString36(HashFrom(<<0, Cardinality(DOMAIN S.cache)>>,
                                           originalText)) >>
        simplifiedText == callSimplifyAPI(originalText, resp)
        S1 == [S EXCEPT !.run.calls[n].pc = "settled"]
    IN  IF simplifiedText # <<>> /\ simplifiedText # originalText
        THEN [S1 EXCEPT
                !.text[n] = simplifiedText,
                !.cache = Put(@, cacheKey, simplifiedText),
                !.stats.textsSimplified = @ + 1,
                !.run.outcome = Put(@, n, Outcome("applied", simplifiedText))]
        ELSE [S1 EXCEPT
                !.text[n] = originalText,
                !.run.outcome =
                    Put(@, n, Outcome(IF resp.ok THEN "unchanged"
                                      ELSE "failed", originalText))]

\* simplifyNodeFinish without this.stats.textsSimplified++
simplifyNodeFinishNoCount(S, n, resp) ==
    LET originalText == S.run.calls[n].originalText
        cacheKey == CacheKey(S.run.mode, originalText)
        simplifiedText == callSimplifyAPI(originalText, resp)
        S1 == [S EXCEPT !.run.calls[n].pc = "settled"]
    IN  IF simplifiedText # <<>> /\ simplifiedText # originalText
        THEN [S1 EXCEPT
                !.text[n] = simplifiedText,
                !.cache = Put(@, cacheKey, simplifiedText),
                !.run.outcome = Put(@, n, Outcome("applied", simplifiedText))]
        ELSE [S1 EXCEPT
                !.text[n] = originalText,
                !.run.outcome =
                    Put(@, n, Outcome(IF resp.ok THEN "unchanged"
                                      ELSE "failed", originalText))]

\* simplifyNodeFinish that takes every non-empty text callSimplifyAPI
\* returns as a simplification
simplifyNodeFinishAnyText(S, n, resp) ==
    LET originalText == S.run.calls[n].originalText
        cacheKey == CacheKey(S.run.mode, originalText)
        simplifiedText == callSimplifyAPI(originalText, resp)
        S1 == [S EXCEPT !.run.calls[n].pc = "settled"]
    IN  IF simplifiedText # <<>>
        THEN [S1 EXCEPT
                !.text[n] = simplifiedText,
                !.cache = Put(@, cacheKey, simplifiedText),
                !.stats.textsSimplified = @ + 1,
                !.run.outcome = Put(@, n, Outcome("applied", simplifiedText))]
        ELSE [S1 EXCEPT
                !.text[n] = originalText,
                !.run.outcome =
                    Put(@, n, Outcome(IF resp.ok THEN "unchanged"
                                      ELSE "failed", originalText))]

\* simplifyNodeFinish without node.textContent = simplifiedText
simplifyNodeFinishKeepsText(S, n, resp) ==
    LET originalText == S.run.calls[n].originalText
        cacheKey == CacheKey(S.run.mode, originalText)
        simplifiedText == callSimplifyAPI(originalText, resp)
        S1 == [S EXCEPT !.run.calls[n].pc = "settled"]
    IN  IF simplifiedText # <<>> /\ simplifiedText # originalText
        THEN [S1 EXCEPT
                !.cache = Put(@, cacheKey, simplifiedText),
                !.stats.textsSimplified = @ + 1,
                !.run.outcome = Put(@, n, Outcome("applied", simplifiedText))]
        ELSE [S1 EXCEPT
                !.text[n] = originalText,
                !.run.outcome =
                    Put(@, n, Outcome(IF resp.ok THEN "unchanged"
                                      ELSE "failed", originalText))]

\* simplifyNode from the return of callSimplifyAPI on
simplifyNodeFinish(S, n, resp) ==
    LET originalText == S.run.calls[n].originalText
        cacheKey == CacheKey(S.run.mode, originalText)
        simplifiedText == callSimplifyAPI(originalText, resp)
        S1 == [S EXCEPT !.run.calls[n].pc = "settled"]
    IN  IF simplifiedText # <<>> /\ simplifiedText # originalText
        THEN [S1 EXCEPT
                !.text[n] = simplifiedText,
                !.cache = Put(@, cacheKey, simplifiedText),
                !.stats.textsSimplified = @ + 1,
                !.run.outcome = Put(@, n, Outcome("applied", simplifiedText))]
        ELSE [S1 EXCEPT
                !.text[n] = originalText,
                !.run.outcome =
                    Put(@, n, Outcome(IF resp.ok THEN "unchanged"
                                      ELSE "failed", originalText))]

\* settleCall with a loop that goes on as soon as one call of the batch
\* has settled
settleCallOfAny(S, n, resp) ==
    simplifyPageLoop([simplifyNodeFinish(S, n, resp) EXCEPT
                         !.run.i = @ + batchSize])

\* the code that runs when a remote call settles: simplifyNode finishes,
\* and when it was the last of its batch, Promise.all resolves and the loop
\* of simplifyPage goes on
settleCall(S, n, resp) ==
    LET S1 == simplifyNodeFinish(S, n, resp)
    IN  IF InFlight(S1.run) # {} THEN S1
        ELSE simplifyPageLoop([S1 EXCEPT !.run.i = @ + batchSize])

\* what the synchronous code of a run shares with the rest of the script
Shared(run) ==
    [ text |-> text, originalTexts |-> originalTexts, stats |-> stats,
      cache |-> cache, run |-> run ]

\* the sequence without its k-th element
Remove(seq, k) == SubSeq(seq, 1, k - 1) \o SubSeq(seq, k + 1, Len(seq))

(***************************************************************************)
(* Content script: initial state                                           *)
(***************************************************************************)

\* an entry a former page visit left in chrome.storage.local
StoredEntries == Put(EmptyMap, CacheKey("easy", TextHaus), TextSimple)

InitialStorage == {NoRecord, Record(StoredEntries)}

\* the pages of the model: the first text node holds a sentence
Pages == {p \in [Nodes -> PageTexts] : p[1] = TextHausPadded}

\* the constructor, with the get of loadFromStorage issued, with one of
\* the stored records
constructed(stored) ==
    /\ originalTexts = EmptyMap
    /\ isActive = FALSE
    /\ cache = EmptyMap
    /\ stats = ZeroStats
    /\ runs = <<>>
    /\ storage \in stored
    /\ loading = [pc |-> "pending", record |-> storage]
    /\ page = text
    /\ last = NoLast
    /\ accepted = 0
    /\ reply = NoReply
    /\ storedStats = NoStoredStats
    /\ cleared = {}
    /\ statsReply = NoStatsReply

\* the content script constructed on one of the pages, whose text nodes
\* are children of paragraphs of document.body
csStart(pages, stored) ==
    /\ text \in pages
    /\ tag = [n \in DOMAIN text |-> "P"]
    /\ ancestors = [n \in DOMAIN text |-> <<>>]
    /\ constructed(stored)

csInit == csStart(Pages, InitialStorage)

(***************************************************************************)
(* Content script: the handlers                                            *)
(***************************************************************************)

\* every unit of the run was settled in one of these ways
AllSettledAs(run, kinds) ==
    /\ run.nodes # <<>>
    /\ \A j \in 1 .. Len(run.nodes) :
          /\ run.nodes[j] \in DOMAIN run.outcome
          /\ run.outcome[run.nodes[j]].kind \in kinds

\* every unit of the run was a remote call that returned a new text
AllApplied(run) == AllSettledAs(run, {"applied"})

\* every unit of the run was a remote call that returned with status 200
AllReturned(run) == AllSettledAs(run, {"applied", "unchanged"})

\* nothing else happened while the run was executing
Undisturbed(run) == ~run.overlapped /\ ~run.restored /\ ~run.reloaded

\* simplifyPage while isActive: it returns 'Already active'
simplifyPageRejected ==
    /\ isActive
    /\ reply' = [success |-> FALSE, error |-> "Already active"]
    /\ UNCHANGED << tag, ancestors, statsReply, storedStats, cleared,
                    text, originalTexts, isActive, cache, stats, runs,
                    storage, loading, page, last, accepted >>

\* simplifyPage after its isActive check, up to its first await
acceptBody(mode) ==
    /\ accepted < MaxRuns
    /\ accepted' = accepted + 1
    /\ LET run0 == [NewRun EXCEPT
                        !.mode = mode,
                        !.nodes = extractTextNodes(text, tag),
                        !.overlapped = (runs # <<>>),
                        !.after = (IF last.stage = 2 /\ last.mode = mode
                                   THEN last.kind ELSE "none"),
                        !.units = (IF last.stage = 2 /\ last.mode = mode
                                   THEN Len(last.nodes) ELSE 0)]
           S == simplifyPageLoop([Shared(run0) EXCEPT !.stats = ZeroStats])
       IN  /\ isActive' = TRUE
           /\ text' = S.text
           /\ originalTexts' = S.originalTexts
           /\ stats' = S.stats
           /\ runs' = Append([k \in 1 .. Len(runs) |->
                                 [runs[k] EXCEPT !.overlapped = TRUE]],
                             S.run)
    /\ last' = NoLast
    /\ UNCHANGED << tag, ancestors, statsReply, storedStats, cleared,
                    cache, storage, loading, page, reply >>

\* simplifyPage without its isActive check
simplifyPageAcceptedUnchecked(mode) == acceptBody(mode)

\* simplifyPage while not isActive, up to its first await
simplifyPageAccepted(mode) ==
    /\ ~isActive
    /\ acceptBody(mode)

\* the message { action: 'simplify', mode }
SimplifyPage(mode) ==
    \/ simplifyPageRejected
    \/ simplifyPageAccepted(mode)

\* the remote call of unit n of the k-th run settles with response resp
SettleCall(k, n, resp) ==
    /\ k \in 1 .. Len(runs)
    /\ runs[k].pc = "batching"
    /\ n \in InFlight(runs[k])
    /\ resp \in Responses(runs[k].calls[n].originalText)
    /\ LET S == settleCall(Shared(runs[k]), n, resp)
       IN  /\ text' = S.text
           /\ originalTexts' = S.originalTexts
           /\ stats' = S.stats
           /\ cache' = S.cache
           /\ runs' = [runs EXCEPT ![k] = S.run]
           /\ cleared' =
                 IF S.run.outcome[n].kind = "applied"
                 THEN cleared \ {CacheKey(runs[k].mode,
                                          runs[k].calls[n].originalText)}
                 ELSE cleared
    /\ UNCHANGED << tag, ancestors, statsReply, storedStats, isActive,
                    storage, loading, page, last, accepted, reply >>

\* ReturnRun with a simplifyPage that reports a scan without units as a
\* failure
ReturnRunEmptyFails(k, saved) ==
    /\ k \in 1 .. Len(runs)
    /\ runs[k].pc = "saving"
    /\ LET settled == saveToStorageSettle(storage, runs[k].snapshot, saved)
       IN  /\ storage' = settled.record
           /\ reply' = IF settled.raised \/ runs[k].nodes = <<>>
                       THEN [success |-> FALSE, error |-> "storage"]
                       ELSE [success |-> TRUE, error |-> "none"]
    /\ isActive' = FALSE
    /\ runs' = Remove(runs, k)
    /\ last' = [ stage |-> 1, mode |-> runs[k].mode, nodes |-> runs[k].nodes,
                 kind |-> IF ~Undisturbed(runs[k]) THEN "none"
                          ELSE IF AllApplied(runs[k]) THEN "new"
                          ELSE IF AllReturned(runs[k]) THEN "ok"
                          ELSE "none",
                 stats |-> stats ]
    /\ UNCHANGED << tag, ancestors, statsReply, storedStats, cleared,
                    text, originalTexts, cache, stats, loading, page,
                    accepted >>

\* ReturnRun without the finally block of simplifyPage
ReturnRunNoFinally(k, saved) ==
    /\ k \in 1 .. Len(runs)
    /\ runs[k].pc = "saving"
    /\ LET settled == saveToStorageSettle(storage, runs[k].snapshot, saved)
       IN  /\ storage' = settled.record
           /\ reply' = IF settled.raised
                       THEN [success |-> FALSE, error |-> "storage"]
                       ELSE [success |-> TRUE, error |-> "none"]
    /\ isActive' = isActive
    /\ runs' = Remove(runs, k)
    /\ last' = [ stage |-> 1, mode |-> runs[k].mode, nodes |-> runs[k].nodes,
                 kind |-> IF ~Undisturbed(runs[k]) THEN "none"
                          ELSE IF AllApplied(runs[k]) THEN "new"
                          ELSE IF AllReturned(runs[k]) THEN "ok"
                          ELSE "none",
                 stats |-> stats ]
    /\ UNCHANGED << tag, ancestors, statsReply, storedStats, cleared,
                    text, originalTexts, cache, stats, loading, page,
                    accepted >>

\* chrome.storage.local.set of saveToStorage settles, written or rejected:
\* simplifyPage returns { success: true, stats: this.stats }, or what its
\* catch block returns had saveToStorage raised, and its finally block runs
ReturnRun(k, saved) ==
    /\ k \in 1 .. Len(runs)
    /\ runs[k].pc = "saving"
    /\ LET settled == saveToStorageSettle(storage, runs[k].snapshot, saved)
       IN  /\ storage' = settled.record
           /\ reply' = IF settled.raised
                       THEN [success |-> FALSE, error |-> "storage"]
                       ELSE [success |-> TRUE, error |-> "none"]
    /\ isActive' = FALSE
    /\ runs' = Remove(runs, k)
    /\ last' = [ stage |-> 1, mode |-> runs[k].mode, nodes |-> runs[k].nodes,
                 kind |-> IF ~Undisturbed(runs[k]) THEN "none"
                          ELSE IF AllApplied(runs[k]) THEN "new"
                          ELSE IF AllReturned(runs[k]) THEN "ok"
                          ELSE "none",
                 stats |-> stats ]
    /\ UNCHANGED << tag, ancestors, statsReply, storedStats, cleared,
                    text, originalTexts, cache, stats, loading, page,
                    accepted >>

\* restoreOriginal: what the forEach over originalTexts leaves displayed
restoredTexts ==
    [n \in DOMAIN text |->
        IF n \in DOMAIN originalTexts THEN originalTexts[n] ELSE text[n]]

RestoreOriginal ==
    /\ text' = restoredTexts
    /\ originalTexts' = EmptyMap
    /\ isActive' = FALSE
    /\ runs' = [k \in 1 .. Len(runs) |-> [runs[k] EXCEPT !.restored = TRUE]]
    /\ last' = IF last.stage = 1 THEN [last EXCEPT !.stage = 2] ELSE last
    /\ UNCHANGED << tag, ancestors, statsReply, storedStats, cleared,
                    cache, stats, storage, loading, page, accepted,
                    reply >>

\* chrome.storage.local.get of the constructor's loadFromStorage settles:
\* it returns what it read, or it rejects and the catch block logs that.
\* The get is the first storage call the script issues, so what it read is
\* the record as it was before any write of this script.
LoadFromStorage(loaded) ==
    /\ loading.pc = "pending"
    /\ loading' = [pc |-> "done", record |-> NoRecord]
    /\ cache' = IF loaded /\ loading.record.present
                THEN loading.record.entries
                ELSE cache
    /\ runs' = [k \in 1 .. Len(runs) |-> [runs[k] EXCEPT !.reloaded = TRUE]]
    /\ last' = [last EXCEPT !.kind = "none"]
    /\ UNCHANGED << tag, ancestors, statsReply, storedStats, cleared,
                    text, originalTexts, isActive, stats, storage,
                    page, accepted, reply >>

\* PopupController.handleClearCache, confirmed by the user: it removes
\* the translationCache record from chrome.storage.local
handleClearCache ==
    /\ storage' = NoRecord
    /\ cleared' = DOMAIN cache \cup DOMAIN storage.entries
                      \cup DOMAIN loading.record.entries
    /\ UNCHANGED << tag, ancestors, statsReply, text, originalTexts, isActive,
                    cache, stats, runs, loading, page, last, accepted, reply,
                    storedStats >>

\* the message { action: 'getStats' } with a handler that also resets the
\* counters
GetStatsAndReset ==
    /\ statsReply' = [success |-> TRUE, stats |-> stats]
    /\ stats' = ZeroStats
    /\ UNCHANGED << tag, ancestors, text, originalTexts, isActive, cache,
                    runs, storage, loading, page, last, accepted, reply,
                    storedStats, cleared >>

\* the message { action: 'getStats' }:
\* sendResponse({ success: true, stats: simplifier.stats })
GetStats ==
    /\ statsReply' = [success |-> TRUE, stats |-> stats]
    /\ UNCHANGED << tag, ancestors, text, originalTexts, isActive, cache,
                    stats, runs, storage, loading, page, last, accepted,
                    reply, storedStats, cleared >>

\* the content script with a chrome.storage.local that is available
csNext ==
    \/ \E mode \in Modes : SimplifyPage(mode)
    \/ \E k \in RunIds, n \in DOMAIN text :
          \E resp \in Responses(TextHaus) \cup Responses(TextSimple) :
              SettleCall(k, n, resp)
    \/ \E k \in RunIds : ReturnRun(k, TRUE)
    \/ RestoreOriginal
    \/ LoadFromStorage(TRUE)

(***************************************************************************)
(* Background service worker (class BackgroundService)                     *)
(*                                                                         *)
(* this.cache is a Map: it iterates in insertion order, set on a present   *)
(* key keeps the key's position, and has/get do not move a key.  It is a   *)
(* sequence of entries, oldest insertion first.  totalProcessingTime and   *)
(* the settings are left out: nothing else depends on them.                *)
(***************************************************************************)

\* if (this.cache.size > 1000)
CacheLimit == 1000

\* const maxCacheSize = 500 of cleanupCache
maxCacheSize == 500

\* simplify requests received by the service worker
MaxRequests == 2

\* simplify requests waiting for callAPI at the same time
MaxPending == 2

Entry(key, value) == [key |-> key, value |-> value]

Keys(c) == {c[i].key : i \in 1 .. Len(c)}

\* Map.prototype.has
Has(c, key) == \E i \in 1 .. Len(c) : c[i].key = key

\* Map.prototype.get of a present key
Get(c, key) == c[CHOOSE i \in 1 .. Len(c) : c[i].key = key].value

\* Map.prototype.set
MapSet(c, key, value) ==
    IF Has(c, key)
    THEN [i \in 1 .. Len(c) |->
             IF c[i].key = key THEN Entry(key, value) ELSE c[i]]
    ELSE Append(c, Entry(key, value))

\* the i-th text of a stored record: a text of one letter, whose hash is
\* its code
StoredText(i) == << 64 + i >>

StoredKey(i) == CacheKey("easy", StoredText(i))

ZeroBgStats == [totalRequests |-> 0, totalCacheHits |-> 0, totalErrors |-> 0]

\* chrome.storage.local as the service worker reads and writes it: the
\* records translationCache and stats, each present or not
NoBgRecord ==
    [hasCache |-> FALSE, entries |-> <<>>, hasStats |-> FALSE,
     stats |-> ZeroBgStats]

\* a translationCache of n entries and no stats, as the content script's
\* saveToStorage writes it
StoredRecord(n) ==
    [hasCache |-> TRUE,
     entries |-> [i \in 1 .. n |-> Entry(StoredKey(i), TextSimple)],
     hasStats |-> FALSE, stats |-> ZeroBgStats]

\* sizes of the record found at start: just above the size cleanupCache
\* leaves, and the size at which one more set passes the limit
StoredSizes == {maxCacheSize + 1, CacheLimit}

BgInitialStorage == {NoBgRecord} \cup {StoredRecord(n) : n \in StoredSizes}

\* message.text of the simplify requests
RequestTexts == {StoredText(1), TextHaus}

\* the answers of the remote service to callAPI: an empty output, a new
\* text, or a failure
BgResponses == Responses(<<>>)

VARIABLES
    bgCache,      \* this.cache
    bgStats,      \* this.stats
    bgStorage,    \* chrome.storage.local
    bgLoading,    \* the get of loadFromStorage issued by init
    bgPending,    \* the simplify requests whose handler is suspended, as
                  \* [text, mode], at the await of callAPI or, after a
                  \* cache hit, of saveToStorage (pc), with the value the
                  \* cache held when has found the key (history: found)
    bgReply,      \* the response to the last simplify or clearCache
                  \* message answered
    bgStatsReply, \* the response to the last getStats message answered
    bgTouched,    \* history: the keys read or written since the load,
                  \* least recently accessed first
    bgOp          \* history: the last operation of the service worker

bgVars ==
    << bgCache, bgStats, bgStorage, bgLoading, bgPending, bgReply,
       bgStatsReply, bgTouched, bgOp >>

vars == << csVars, bgVars >>

\* the key becomes the most recently accessed one
Touch(t, key) == SelectSeq(t, LAMBDA k : k # key) \o << key >>

\* no message has been answered yet
NoBgReply ==
    [type |-> "none", success |-> FALSE, cacheHit |-> FALSE, output |-> <<>>]

\* BackgroundService.getStats: the counters, the size of the cache, and
\* the share of the requests that were cache hits as toFixed(1) prints it,
\* in tenths of a percent (0 while there was no request)
getStats(st, c) ==
    [ totalRequests |-> st.totalRequests,
      totalCacheHits |-> st.totalCacheHits,
      totalErrors |-> st.totalErrors,
      cacheSize |-> Len(c),
      cacheHitRate |->
          IF st.totalRequests > 0
          THEN (2000 * st.totalCacheHits + st.totalRequests)
                   \div (2 * st.totalRequests)
          ELSE 0 ]

\* no getStats message has been answered yet
NoBgStatsReply == [success |-> FALSE, stats |-> getStats(ZeroBgStats, <<>>)]

\* the response to a simplify message
SimplifyReply(success, cacheHit, output) ==
    [type |-> "simplify", success |-> success, cacheHit |-> cacheHit,
     output |-> output]

\* the response to a clearCache message
ClearReply(success) ==
    [type |-> "clearCache", success |-> success, cacheHit |-> FALSE,
     output |-> <<>>]

\* saveToStorage with the rejection of its set not caught
bgSaveToStorageUncaught(record, c, st, saved) ==
    [ record |-> IF saved
                 THEN [hasCache |-> TRUE, entries |-> c,
                       hasStats |-> TRUE, stats |-> st]
                 ELSE record,
      raised |-> ~saved ]

\* BackgroundService.saveToStorage: the record the storage holds after it,
\* and whether it raises.  Its set writes the cache and the stats, or it
\* rejects and the catch block logs that.
bgSaveToStorage(record, c, st, saved) ==
    [ record |-> IF saved
                 THEN [hasCache |-> TRUE, entries |-> c,
                       hasStats |-> TRUE, stats |-> st]
                 ELSE record,
      raised |-> FALSE ]

\* BackgroundService.callAPI
callAPI(txt, resp) ==
    IF resp.ok
    THEN [success |-> TRUE,
          output |-> IF resp.output # <<>> THEN resp.output ELSE txt]
    ELSE [success |-> FALSE, output |-> txt]

\* the size limit of handleSimplifyRequest, cut down to maxCacheSize
limitCacheSizeToWatermark(c) ==
    IF Len(c) > CacheLimit
    THEN SubSeq(c, Len(c) - maxCacheSize + 1, Len(c))
    ELSE c

\* the size limit of handleSimplifyRequest after its cache.set
limitCacheSize(c) == IF Len(c) > CacheLimit THEN Tail(c) ELSE c

\* the constructor, with the get of loadFromStorage issued, over one of
\* the stored records
bgStart(stored) ==
    /\ bgCache = <<>>
    /\ bgStats = ZeroBgStats
    /\ bgStorage \in stored
    /\ bgLoading = [pc |-> "pending", record |-> bgStorage]
    /\ bgPending = <<>>
    /\ bgReply = NoBgReply
    /\ bgStatsReply = NoBgStatsReply
    /\ bgTouched = <<>>
    /\ bgOp = "init"

bgInit == bgStart(BgInitialStorage)

\* loadFromStorage from the settling of its get on: the get returns what
\* it read, or it rejects and the catch block logs that
bgLoadFromStorage(loaded) ==
    /\ bgLoading.pc = "pending"
    /\ bgLoading' = [pc |-> "done", record |-> NoBgRecord]
    /\ bgCache' = IF loaded /\ bgLoading.record.hasCache
                  THEN bgLoading.record.entries ELSE bgCache
    /\ bgStats' = IF loaded /\ bgLoading.record.hasStats
                  THEN bgLoading.record.stats ELSE bgStats
    /\ bgTouched' = <<>>
    /\ bgOp' = "load"
    /\ UNCHANGED << bgStorage, bgPending, bgReply, bgStatsReply >>

\* the catch block of handleSimplifyRequest: it counts the error and calls
\* saveToStorage again.  Had the first saveToStorage raised, so does this
\* one, and the listener answers with its own failure response.
handleSimplifyRequestCatch(counted) ==
    /\ bgStats' = [counted EXCEPT !.totalErrors = @ + 1]
    /\ bgReply' = SimplifyReply(FALSE, FALSE, <<>>)
    /\ UNCHANGED bgStorage

\* what this.cache.get returns for a key the cache does not hold
Undefined == << -1 >>

\* a suspended handler of a simplify request
Suspended(txt, mode, pc, found) ==
    [text |-> txt, mode |-> mode, pc |-> pc, found |-> found]

\* handleSimplifyRequest up to its first await: on a cache hit the await
\* of saveToStorage, whose set is issued here, otherwise the call of
\* callAPI
handleSimplifyRequestStart(txt, mode, saved) ==
    /\ bgStats.totalRequests < MaxRequests
    /\ LET cacheKey == CacheKey(mode, txt)
           counted == [bgStats EXCEPT !.totalRequests = @ + 1]
           hit == [counted EXCEPT !.totalCacheHits = @ + 1]
           save == bgSaveToStorage(bgStorage, bgCache, hit, saved)
       IN  IF Has(bgCache, cacheKey)
           THEN /\ IF save.raised
                   THEN handleSimplifyRequestCatch(hit)
                        /\ UNCHANGED bgPending
                   ELSE /\ bgStats' = hit
                        /\ bgStorage' = save.record
                        /\ bgPending' =
                              Append(bgPending,
                                     Suspended(txt, mode, "saveToStorage",
                                               Get(bgCache, cacheKey)))
                        /\ UNCHANGED bgReply
                /\ bgTouched' = Touch(bgTouched, cacheKey)
                /\ bgOp' = "hit"
                /\ UNCHANGED bgCache
           ELSE /\ Len(bgPending) < MaxPending
                /\ bgStats' = counted
                /\ bgPending' =
                      Append(bgPending, Suspended(txt, mode, "callAPI", <<>>))
                /\ bgOp' = "miss"
                /\ UNCHANGED << bgCache, bgStorage, bgTouched, bgReply >>
    /\ UNCHANGED << bgLoading, bgStatsReply >>

\* handleSimplifyRequest after a cache hit, from the return of
\* saveToStorage on: it returns { success: true, output:
\* this.cache.get(cacheKey), cacheHit: true }
handleSimplifyRequestAnswer(i) ==
    /\ i \in 1 .. Len(bgPending)
    /\ bgPending[i].pc = "saveToStorage"
    /\ LET cacheKey == CacheKey(bgPending[i].mode, bgPending[i].text)
       IN  bgReply' = SimplifyReply(TRUE, TRUE,
                                    IF Has(bgCache, cacheKey)
                                    THEN Get(bgCache, cacheKey)
                                    ELSE Undefined)
    /\ bgPending' = Remove(bgPending, i)
    /\ bgOp' = "answer"
    /\ UNCHANGED << bgCache, bgStats, bgStorage, bgLoading, bgTouched,
                    bgStatsReply >>

\* handleSimplifyRequest from the return of callAPI on
handleSimplifyRequestFinish(i, resp, saved) ==
    /\ i \in 1 .. Len(bgPending)
    /\ bgPending[i].pc = "callAPI"
    /\ LET txt == bgPending[i].text
           cacheKey == CacheKey(bgPending[i].mode, txt)
           result == callAPI(txt, resp)
           c == limitCacheSize(MapSet(bgCache, cacheKey, result.output))
           save == bgSaveToStorage(bgStorage, c, bgStats, saved)
       IN  IF result.success
           THEN /\ bgCache' = c
                /\ IF save.raised
                   THEN handleSimplifyRequestCatch(bgStats)
                   ELSE /\ bgStorage' = save.record
                        /\ bgReply' = SimplifyReply(TRUE, FALSE,
                                                    result.output)
                        /\ UNCHANGED bgStats
                /\ bgTouched' = Touch(bgTouched, cacheKey)
                /\ bgOp' = "set"
           ELSE /\ bgReply' = SimplifyReply(FALSE, FALSE, result.output)
                /\ bgOp' = "failed"
                /\ UNCHANGED << bgCache, bgStorage, bgTouched, bgStats >>
    /\ bgPending' = Remove(bgPending, i)
    /\ UNCHANGED << bgLoading, bgStatsReply >>

\* cleanupCache with a loop that runs once more than entriesToRemove
cleanupCacheOneMore(saved) ==
    /\ IF Len(bgCache) > maxCacheSize
       THEN /\ bgCache' = SubSeq(bgCache, Len(bgCache) - maxCacheSize + 2,
                                 Len(bgCache))
            /\ bgStorage' =
                   bgSaveToStorage(bgStorage, bgCache', bgStats, saved).record
       ELSE UNCHANGED << bgCache, bgStorage >>
    /\ bgOp' = "cleanup"
    /\ UNCHANGED << bgStats, bgLoading, bgPending, bgTouched, bgReply,
                    bgStatsReply >>

\* cleanupCache, called by the hourly alarm
cleanupCache(saved) ==
    /\ IF Len(bgCache) > maxCacheSize
       THEN /\ bgCache' = SubSeq(bgCache, Len(bgCache) - maxCacheSize + 1,
                                 Len(bgCache))
            /\ bgStorage' =
                   bgSaveToStorage(bgStorage, bgCache', bgStats, saved).record
       ELSE UNCHANGED << bgCache, bgStorage >>
    /\ bgOp' = "cleanup"
    /\ UNCHANGED << bgStats, bgLoading, bgPending, bgTouched, bgReply,
                    bgStatsReply >>

\* clearCache, and the response of the listener: what clearCache returns,
\* or the failure response of the listener's catch had clearCache raised
clearCache(saved) ==
    /\ bgCache' = <<>>
    /\ LET save == bgSaveToStorage(bgStorage, bgCache', bgStats, saved)
       IN  /\ bgStorage' = save.record
           /\ bgReply' = ClearReply(~save.raised)
    /\ bgTouched' = <<>>
    /\ bgOp' = "clear"
    /\ UNCHANGED << bgStats, bgLoading, bgPending, bgStatsReply >>

\* the message { type: 'getStats' }:
\* sendResponse({ success: true, stats: backgroundService.getStats() })
bgGetStats ==
    /\ bgStatsReply' = [success |-> TRUE, stats |-> getStats(bgStats, bgCache)]
    /\ UNCHANGED << bgCache, bgStats, bgStorage, bgLoading, bgPending,
                    bgReply, bgTouched, bgOp >>

\* the service worker with a chrome.storage.local that is available
bgNext ==
    \/ bgLoadFromStorage(TRUE)
    \/ \E txt \in RequestTexts, mode \in Modes :
          handleSimplifyRequestStart(txt, mode, TRUE)
    \/ \E i \in 1 .. MaxRequests : handleSimplifyRequestAnswer(i)
    \/ \E i \in 1 .. MaxPending, resp \in BgResponses :
          handleSimplifyRequestFinish(i, resp, TRUE)
    \/ cleanupCache(TRUE)
    \/ clearCache(TRUE)

(***************************************************************************)
(* Specifications: the content script with the service worker at rest,     *)
(* and the service worker with the content script at rest                  *)
(***************************************************************************)

Init == csInit /\ bgInit /\ bgStorage = NoBgRecord

Next == csNext /\ UNCHANGED bgVars

Spec == Init /\ [][Next]_vars

InitBg ==
    /\ bgInit
    /\ csInit
    /\ storage = NoRecord
    /\ \A n \in Nodes : text[n] = TextHausPadded

NextBg == bgNext /\ UNCHANGED csVars

SpecBg == InitBg /\ [][NextBg]_vars

\* the content script on a page of one unit, and the popup
InitPopup ==
    /\ csStart({[n \in Nodes |->
                     IF n = 1 THEN TextHausPadded ELSE TextShort]},
               InitialStorage)
    /\ bgInit
    /\ bgStorage = NoBgRecord

NextPopup == (csNext \/ handleClearCache) /\ UNCHANGED bgVars

SpecPopup == InitPopup /\ [][NextPopup]_vars

\* a page of one unit more than a batch holds: the units of the first
\* batch hold the same sentence, the last unit another one
WidePage ==
    [n \in 1 .. batchSize + 1 |->
        IF n <= batchSize THEN TextHausPadded ELSE TextSimple]

\* the content script on the wide page, with a user who does not restore
\* and a remote service that fails or answers with the same new text
InitWide ==
    /\ csStart({WidePage}, {NoRecord})
    /\ bgInit
    /\ bgStorage = NoBgRecord

csNextWide ==
    \/ SimplifyPage("easy")
    \/ \E k \in RunIds, n \in DOMAIN text, ok \in BOOLEAN :
          SettleCall(k, n, [ok |-> ok,
                            output |-> IF ok THEN TextSimple ELSE <<>>])
    \/ \E k \in RunIds : ReturnRun(k, TRUE)
    \/ LoadFromStorage(TRUE)

NextWide == csNextWide /\ UNCHANGED bgVars

SpecWide == InitWide /\ [][NextWide]_vars

\* "Das ist ein Haus BB": another sentence, for which hashText computes
\* what it computes for "Das ist ein Haus Aa" (31 * 65 + 97 = 31 * 66 + 66)
TextHausBB ==
    <<68, 97, 115, 32, 105, 115, 116, 32, 101, 105, 110, 32,
      72, 97, 117, 115, 32, 66, 66>>

\* pages of one unit more than a batch holds: the units of the first batch
\* hold the same sentence, the last unit that sentence or the other one
CollidePages ==
    {[n \in 1 .. batchSize + 1 |->
         IF n <= batchSize THEN TextHausPadded ELSE sentence] :
       sentence \in {TextHaus, TextHausBB}}

InitCollide ==
    /\ csStart(CollidePages, {NoRecord})
    /\ bgInit
    /\ bgStorage = NoBgRecord

SpecCollide == InitCollide /\ [][NextWide]_vars

\* the smallest page on which the runs that can be accepted have more
\* units together than one batch holds
CrowdedPage == [n \in 1 .. batchSize \div MaxRuns + 1 |-> TextHausPadded]

\* the content script on the crowded page, with a user who simplifies and
\* restores and a remote service that fails or answers with a new text
InitCrowded ==
    /\ csStart({CrowdedPage}, {NoRecord})
    /\ bgInit
    /\ bgStorage = NoBgRecord

csNextCrowded ==
    \/ SimplifyPage("easy")
    \/ \E k \in RunIds, n \in DOMAIN text, ok \in BOOLEAN :
          SettleCall(k, n, [ok |-> ok,
                            output |-> IF ok THEN TextSimple ELSE <<>>])
    \/ \E k \in RunIds : ReturnRun(k, TRUE)
    \/ RestoreOriginal
    \/ LoadFromStorage(TRUE)

NextCrowded == csNextCrowded /\ UNCHANGED bgVars

SpecCrowded == InitCrowded /\ [][NextCrowded]_vars

\* a translationCache record that holds as many entries as the limit of
\* the background service allows
FullEntries == [key \in {StoredKey(i) : i \in 1 .. CacheLimit} |-> TextSimple]

\* the content script on a page of one unit, with the full record stored
InitFull ==
    /\ csStart({[n \in Nodes |->
                     IF n = 1 THEN TextHausPadded ELSE TextShort]},
               {Record(FullEntries)})
    /\ bgInit
    /\ bgStorage = NoBgRecord

SpecFull == InitFull /\ [][Next]_vars

\* the content script on a page of one unit and the service worker over a
\* record of one entry, with a chrome.storage.local whose get and set
\* resolve or reject, a user who does not restore and a remote service
\* that answers with a new text
InitOutage ==
    /\ csStart({[n \in Nodes |->
                     IF n = 1 THEN TextHausPadded ELSE TextShort]},
               InitialStorage)
    /\ bgStart({StoredRecord(1)})

csNextOutage ==
    \/ SimplifyPage("easy")
    \/ \E k \in RunIds, n \in DOMAIN text :
          SettleCall(k, n, [ok |-> TRUE, output |-> TextSimple])
    \/ \E k \in RunIds, saved \in BOOLEAN : ReturnRun(k, saved)
    \/ \E loaded \in BOOLEAN : LoadFromStorage(loaded)

bgNextOutage ==
    \/ \E loaded \in BOOLEAN : bgLoadFromStorage(loaded)
    \/ \E txt \in RequestTexts, saved \in BOOLEAN :
          handleSimplifyRequestStart(txt, "easy", saved)
    \/ \E i \in 1 .. MaxRequests : handleSimplifyRequestAnswer(i)
    \/ \E i \in 1 .. MaxPending, saved \in BOOLEAN :
          handleSimplifyRequestFinish(i, [ok |-> TRUE, output |-> TextSimple],
                                      saved)
    \/ \E saved \in BOOLEAN : clearCache(saved)

NextOutage ==
    \/ csNextOutage /\ UNCHANGED bgVars
    \/ bgNextOutage /\ UNCHANGED csVars

SpecOutage == InitOutage /\ [][NextOutage]_vars

\* the records an earlier life of the service worker left after one
\* request that missed: one entry, and the counters
CountedRecord ==
    [StoredRecord(1) EXCEPT
        !.hasStats = TRUE,
        !.stats = [ZeroBgStats EXCEPT !.totalRequests = 1]]

\* the service worker woken up over those records
InitBgCounted ==
    /\ bgStart({CountedRecord})
    /\ csInit
    /\ storage = NoRecord
    /\ \A n \in Nodes : text[n] = TextHausPadded

SpecBgCounted == InitBgCounted /\ [][NextBg]_vars

\* the content script on a page of one unit and the service worker over a
\* record of one entry, with a popup that asks both for their statistics
\* and a remote service that answers with a new text
InitStats ==
    /\ csStart({[n \in Nodes |->
                     IF n = 1 THEN TextHausPadded ELSE TextShort]},
               {NoRecord})
    /\ bgStart({StoredRecord(1)})

csNextStats ==
    \/ SimplifyPage("easy")
    \/ \E k \in RunIds, n \in DOMAIN text :
          SettleCall(k, n, [ok |-> TRUE, output |-> TextSimple])
    \/ \E k \in RunIds : ReturnRun(k, TRUE)
    \/ RestoreOriginal
    \/ LoadFromStorage(TRUE)
    \/ GetStats

bgNextStats ==
    \/ bgLoadFromStorage(TRUE)
    \/ handleSimplifyRequestStart(StoredText(1), "easy", TRUE)
    \/ \E i \in 1 .. MaxRequests : handleSimplifyRequestAnswer(i)
    \/ \E i \in 1 .. MaxPending :
          handleSimplifyRequestFinish(i, [ok |-> TRUE, output |-> TextSimple],
                                      TRUE)
    \/ bgGetStats

NextStats ==
    \/ csNextStats /\ UNCHANGED bgVars
    \/ bgNextStats /\ UNCHANGED csVars

SpecStats == InitStats /\ [][NextStats]_vars

\* the content script on the pages that are scanned: two text nodes with
\* any of the texts, below any of the parents and ancestors, an entry in
\* the stored record, a user who does not restore and a remote service
\* that answers with a new text
InitScan ==
    /\ text \in [Nodes -> ScanTexts]
    /\ tag \in [Nodes -> PageTags]
    /\ ancestors \in [Nodes -> ScanAncestors]
    /\ constructed({Record(StoredEntries)})
    /\ bgInit
    /\ bgStorage = NoBgRecord

csNextScan ==
    \/ SimplifyPage("easy")
    \/ \E k \in RunIds, n \in DOMAIN text :
          SettleCall(k, n, [ok |-> TRUE, output |-> TextSimple])
    \/ \E k \in RunIds : ReturnRun(k, TRUE)
    \/ LoadFromStorage(TRUE)

NextScan == csNextScan /\ UNCHANGED bgVars

SpecScan == InitScan /\ [][NextScan]_vars

\* the content script on pages whose first text node is a sentence, below
\* a paragraph or a script element, an English text or blank, and whose
\* second text node is too short, with a remote service that answers with
\* a new text
InitSparse ==
    /\ text \in {p \in [Nodes -> ScanTexts] :
                    /\ p[1] \in {TextHausPadded, TextEnglish, TextBlank}
                    /\ \A n \in Nodes \ {1} : p[n] = TextShort}
    /\ tag \in {t \in [Nodes -> PageTags] : \A n \in Nodes \ {1} : t[n] = "P"}
    /\ ancestors = [n \in Nodes |-> <<>>]
    /\ constructed(InitialStorage)
    /\ bgInit
    /\ bgStorage = NoBgRecord

csNextSparse ==
    \/ \E mode \in Modes : SimplifyPage(mode)
    \/ \E k \in RunIds, n \in DOMAIN text :
          SettleCall(k, n, [ok |-> TRUE, output |-> TextSimple])
    \/ \E k \in RunIds : ReturnRun(k, TRUE)
    \/ RestoreOriginal
    \/ LoadFromStorage(TRUE)

NextSparse == csNextSparse /\ UNCHANGED bgVars

SpecSparse == InitSparse /\ [][NextSparse]_vars

\* a remote call of a run settles, failed or with a new text
SettleSome ==
    \E k \in RunIds, n \in DOMAIN text, ok \in BOOLEAN :
        SettleCall(k, n, [ok |-> ok,
                          output |-> IF ok THEN TextSimple ELSE <<>>])

\* the set of a run's saveToStorage settles
ReturnSome == \E k \in RunIds : ReturnRun(k, TRUE)

csNextLive ==
    \/ SimplifyPage("easy")
    \/ SettleSome
    \/ ReturnSome
    \/ RestoreOriginal
    \/ LoadFromStorage(TRUE)

NextLive == csNextLive /\ UNCHANGED bgVars

\* the content script on the sparse pages, with a remote service and a
\* storage that settle every call: a call that has been issued settles at
\* last, and a set that has been issued is answered at last
SpecLive ==
    /\ InitSparse
    /\ [][NextLive]_vars
    /\ WF_vars(SettleSome /\ UNCHANGED bgVars)
    /\ WF_vars(ReturnSome /\ UNCHANGED bgVars)

(***************************************************************************)
(* The content script and the service worker with a remote service that    *)
(* answers some calls and fails others                                     *)
(***************************************************************************)

\* the fetch rejects or the status is not 200
CallFailed == [ok |-> FALSE, output |-> <<>>]

Flaky == {CallFailed, [ok |-> TRUE, output |-> TextSimple]}

InitFlaky ==
    /\ csStart({[n \in Nodes |->
                     IF n = 1 THEN TextHausPadded ELSE TextShort]},
               {NoRecord})
    /\ bgStart({NoBgRecord})

csNextFlaky ==
    \/ SimplifyPage("easy")
    \/ \E k \in RunIds, n \in DOMAIN text, resp \in Flaky :
          SettleCall(k, n, resp)
    \/ \E k \in RunIds : ReturnRun(k, TRUE)
    \/ RestoreOriginal
    \/ LoadFromStorage(TRUE)

bgNextFlaky ==
    \/ bgLoadFromStorage(TRUE)
    \/ handleSimplifyRequestStart(TextHaus, "easy", TRUE)
    \/ \E i \in 1 .. MaxRequests : handleSimplifyRequestAnswer(i)
    \/ \E i \in 1 .. MaxPending, resp \in Flaky :
          handleSimplifyRequestFinish(i, resp, TRUE)

NextFlaky ==
    \/ csNextFlaky /\ UNCHANGED bgVars
    \/ bgNextFlaky /\ UNCHANGED csVars

SpecFlaky == InitFlaky /\ [][NextFlaky]_vars

\* a page of one unit more than a batch holds, whose first and last units
\* hold the same sentence and whose other units hold another one
DedupPage ==
    [n \in 1 .. batchSize + 1 |->
        IF n = 1 THEN TextHausPadded
        ELSE IF n <= batchSize THEN TextSimple ELSE TextHaus]

\* a record translationCache that an earlier visit in mode light left
LightEntries == Put(EmptyMap, CacheKey("light", TextHaus), TextSimple)

\* the content script on that page, with no stored record or with the
\* record of the earlier visit, and a remote service that answers
InitDedup ==
    /\ csStart({DedupPage}, {NoRecord, Record(LightEntries)})
    /\ bgInit
    /\ bgStorage = NoBgRecord

SpecDedup == InitDedup /\ [][NextScan]_vars

\* the records an earlier life of the service worker left after one
\* request that was a cache hit
HitRecord ==
    [StoredRecord(1) EXCEPT
        !.hasStats = TRUE,
        !.stats = [ZeroBgStats EXCEPT !.totalRequests = 1,
                                      !.totalCacheHits = 1]]

\* the content script on a page of one unit, with or without a stored
\* entry for it, and the service worker woken up over stored counters
InitCounters ==
    /\ csStart({[n \in Nodes |->
                     IF n = 1 THEN TextHausPadded ELSE TextShort]},
               InitialStorage)
    /\ bgStart({HitRecord})

csNextCounters ==
    \/ SimplifyPage("easy")
    \/ \E k \in RunIds, n \in DOMAIN text :
          SettleCall(k, n, [ok |-> TRUE, output |-> TextSimple])
    \/ \E k \in RunIds : ReturnRun(k, TRUE)
    \/ RestoreOriginal
    \/ LoadFromStorage(TRUE)

bgNextCounters ==
    \/ bgLoadFromStorage(TRUE)
    \/ handleSimplifyRequestStart(StoredText(1), "easy", TRUE)
    \/ \E i \in 1 .. MaxRequests : handleSimplifyRequestAnswer(i)
    \/ \E i \in 1 .. MaxPending :
          handleSimplifyRequestFinish(i, [ok |-> TRUE, output |-> TextSimple],
                                      TRUE)

NextCounters ==
    \/ csNextCounters /\ UNCHANGED bgVars
    \/ bgNextCounters /\ UNCHANGED csVars

SpecCounters == InitCounters /\ [][NextCounters]_vars

(***************************************************************************)
(* The content script and the service worker on the one                    *)
(* chrome.storage.local of the extension.  storage is the record           *)
(* translationCache as the content script reads and writes it, bgStorage   *)
(* the same record, with the record stats, as the service worker does:     *)
(* what one of them sets is what the other one finds.                      *)
(***************************************************************************)

\* Object.entries of the record written from the entries of a Map, in some
\* order of its keys
AsEntries(m) ==
    LET order == CHOOSE q \in [1 .. Cardinality(DOMAIN m) -> DOMAIN m] :
                    \A i, j \in DOMAIN q : q[i] = q[j] => i = j
    IN  [i \in 1 .. Cardinality(DOMAIN m) |-> Entry(order[i], m[order[i]])]

\* the record written from the entries of the service worker's Map
AsObject(c) == [key \in Keys(c) |-> Get(c, key)]

\* every variable of the content script but the storage
csMemory ==
    << tag, ancestors, text, originalTexts, isActive, cache, stats, runs,
       loading, page, last, accepted, reply, storedStats, cleared,
       statsReply >>

\* every variable of the service worker but the storage
bgMemory ==
    << bgCache, bgStats, bgLoading, bgPending, bgReply, bgStatsReply,
       bgTouched, bgOp >>

\* chrome.storage.local.set({ translationCache }) of the content script,
\* seen by the service worker: the record stats is left as it is
csSetShared ==
    /\ bgStorage' = IF storage' = storage THEN bgStorage
                    ELSE [bgStorage EXCEPT
                             !.hasCache = storage'.present,
                             !.entries = AsEntries(storage'.entries)]
    /\ UNCHANGED bgMemory

\* chrome.storage.local.set({ translationCache, stats }) of the service
\* worker, seen by the content script
bgSetShared ==
    /\ storage' = IF bgStorage' = bgStorage THEN storage
                  ELSE [present |-> bgStorage'.hasCache,
                        entries |-> AsObject(bgStorage'.entries)]
    /\ UNCHANGED csMemory

InitShared ==
    /\ csStart({[n \in Nodes |->
                     IF n = 1 THEN TextHausPadded ELSE TextShort]},
               {NoRecord})
    /\ bgStart({NoBgRecord})

csNextShared ==
    \/ SimplifyPage("easy")
    \/ \E k \in RunIds, n \in DOMAIN text :
          SettleCall(k, n, [ok |-> TRUE, output |-> TextSimple])
    \/ \E k \in RunIds : ReturnRun(k, TRUE)
    \/ LoadFromStorage(TRUE)

bgNextShared ==
    \/ bgLoadFromStorage(TRUE)
    \/ \E txt \in RequestTexts :
          handleSimplifyRequestStart(txt, "easy", TRUE)
    \/ \E i \in 1 .. MaxRequests : handleSimplifyRequestAnswer(i)
    \/ \E i \in 1 .. MaxPending :
          handleSimplifyRequestFinish(i, [ok |-> TRUE, output |-> TextSimple],
                                      TRUE)

NextShared ==
    \/ csNextShared /\ csSetShared
    \/ bgNextShared /\ bgSetShared

SpecShared == InitShared /\ [][NextShared]_vars

(***************************************************************************)
(* Properties of the content script                                        *)
(***************************************************************************)

Failed(run) == {n \in DOMAIN run.outcome : run.outcome[n].kind = "failed"}

\* every unit that was settled from the cache or by a new text displays it
DisplaysResults(run) ==
    \A n \in DOMAIN run.outcome :
        run.outcome[n].kind \in {"hit", "applied"}
            => text[n] = run.outcome[n].value

\* the run has finished its batches and nothing interfered with it
FinishedAlone(run) ==
    run.pc = "saving" /\ ~run.overlapped /\ ~run.restored

\* C1: once restoreOriginal has been called while a run is executing, that
\* run settles no further unit with a simplification result, remote or
\* cached: restore wins over the results still in flight.
RestoreWins ==
    [][\A k \in 1 .. Len(runs) :
          (runs[k].restored /\ Len(runs') = Len(runs))
              => \A n \in DOMAIN runs'[k].outcome :
                    n \notin DOMAIN runs[k].outcome
                        => runs'[k].outcome[n].kind \notin {"hit", "applied"}
      ]_csVars

\* C2: at most one simplifyPage invocation is between its acceptance and
\* its return.
AtMostOneRun == Len(runs) <= 1

RestoreRoundTrip ==
    (last.stage = 2 /\ accepted = 1)
        => \A j \in 1 .. Len(last.nodes) :
              text[last.nodes[j]] = page[last.nodes[j]]

\* C5: when a run has finished its batches, stats.errors is the number of
\* its units whose remote call failed.
ErrorsCountFailures ==
    \A k \in 1 .. Len(runs) :
        (runs[k].pc = "saving" /\ ~runs[k].overlapped)
            => stats.errors = Cardinality(Failed(runs[k]))

\* C6: when the first run of a page has finished its batches, every unit
\* was processed, every unit whose remote call failed displays the text it
\* displayed before the run, and every other unit displays its result.
FailuresContained ==
    \A k \in 1 .. Len(runs) :
        (FinishedAlone(runs[k]) /\ accepted = 1)
            => /\ \A j \in 1 .. Len(runs[k].nodes) :
                     runs[k].nodes[j] \in DOMAIN runs[k].outcome
               /\ \A n \in Failed(runs[k]) : text[n] = page[n]
               /\ DisplaysResults(runs[k])

\* what C7 says of a run that follows a returned and restored run of the
\* same mode: it issues no remote call, every unit is a cache hit and
\* displays the cached text, and cacheHits is the number of units, the
\* same number as in the first run
AllCacheHits(run) ==
    /\ run.pc = "saving"
    /\ AllSettledAs(run, {"hit"})
    /\ DisplaysResults(run)
    /\ stats.cacheHits = Len(run.nodes)
    /\ Len(run.nodes) = run.units

CountsEveryUnit(run) ==
    /\ stats = [ textsSimplified |-> Len(run.nodes), cacheHits |-> 0,
                 errors |-> 0 ]
    /\ DisplaysResults(run)

\* C8 as stated: the remote service returned with status 200 for every
\* unit.
RunCountsAfterSuccess ==
    \A k \in 1 .. Len(runs) :
        (FinishedAlone(runs[k]) /\ AllReturned(runs[k]))
            => CountsEveryUnit(runs[k])

\* C8, amended: when a run over n units, none of them cached, has finished
\* with no other run executing and no restoreOriginal meanwhile, and the
\* remote service returned a new text for every unit, then textsSimplified
\* is n, cacheHits and errors are 0 and every unit displays its output.
RunCountsNewTexts ==
    \A k \in 1 .. Len(runs) :
        (FinishedAlone(runs[k]) /\ AllApplied(runs[k]))
            => CountsEveryUnit(runs[k])

\* a run over two units, both replaced by the remote output
RunOverTwoUnits ==
    \E k \in 1 .. Len(runs) :
        /\ FinishedAlone(runs[k])
        /\ AllApplied(runs[k])
        /\ Len(runs[k].nodes) = 2
        /\ \A n \in Nodes : text[n] = TextSimple

(***************************************************************************)
(* Properties of the background service                                    *)
(***************************************************************************)

\* the step is a cache.set of a key that was not in the cache, made when
\* the cache held the limit or more
SetPastLimit ==
    /\ bgOp' = "set"
    /\ Len(bgCache) + 1 > CacheLimit
    /\ bgCache' # <<>>
    /\ bgCache'[Len(bgCache')].key \notin Keys(bgCache)

MoreRecentlyAccessed(t, e, r) ==
    \E i \in 1 .. Len(t) :
        /\ t[i] = e
        /\ \A j \in 1 .. Len(t) : t[j] = r => j < i

\* C10: an eviction, on set or by cleanupCache, never removes an entry
\* that was read or written more recently than an entry it retains.
EvictsLeastRecentlyAccessed ==
    [][bgOp' \in {"set", "cleanup"}
          => \A e \in Keys(bgCache) \ Keys(bgCache') :
                \A r \in Keys(bgCache') :
                    ~MoreRecentlyAccessed(bgTouched', e, r)
      ]_bgVars

(***************************************************************************)
(* Properties of both caches and of the stored record                      *)
(***************************************************************************)

\* C11: neither the cache of the content script, nor the cache of the
\* background service, nor the translationCache record that either of them
\* has written holds more than 1000 entries.
CacheSizeCeiling ==
    /\ Cardinality(DOMAIN cache) <= CacheLimit
    /\ Cardinality(DOMAIN storage.entries) <= CacheLimit
    /\ Len(bgCache) <= CacheLimit
    /\ Len(bgStorage.entries) <= CacheLimit

\* C12: once the popup has cleared the cache, no key that was written
\* before is found in the cache of the content script or in the stored
\* record, until a remote call sets it again.
ClearEmptiesBothTiers ==
    \A key \in cleared :
        /\ key \notin DOMAIN cache
        /\ key \notin DOMAIN storage.entries

\* C13: no remote call is issued for a unit whose key the stored record
\* holds: a key that is not in the cache of the content script but in the
\* translationCache record is served from the record.
TwoTierLookup ==
    [][Len(runs') >= Len(runs)
          => \A k \in 1 .. Len(runs') :
                \A n \in InFlight(runs'[k]) :
                    (k > Len(runs) \/ n \notin InFlight(runs[k]))
                        => CacheKey(runs'[k].mode,
                                    runs'[k].calls[n].originalText)
                               \notin DOMAIN storage.entries
      ]_csVars

(***************************************************************************)
(* Properties of the batches of a run                                      *)
(***************************************************************************)

\* the units of a run that were dispatched: settled, or with their remote
\* call in flight
Dispatched(run) == DOMAIN run.outcome \cup InFlight(run)

\* the batch of the j-th unit of a run, counted from 0
BatchOf(j) == (j - 1) \div batchSize

\* C14: the units of a run are in document order; no unit is dispatched
\* before every unit of the batches before its own has settled; and the
\* units dispatched while a batch is awaited are the first i + 5 units
\* (all of them, when fewer are left), with i a multiple of 5.
StrictBatchOrder ==
    \A k \in 1 .. Len(runs) :
        LET run == runs[k]
            units == 1 .. Len(run.nodes)
        IN  /\ \A j, h \in units : j < h => run.nodes[j] < run.nodes[h]
            /\ \A j, h \in units :
                  (run.nodes[j] \in Dispatched(run)
                      /\ BatchOf(h) < BatchOf(j))
                      => run.nodes[h] \in DOMAIN run.outcome
            /\ run.i % batchSize = 0
            /\ run.pc = "batching"
                  => /\ InFlight(run) # {}
                     /\ Dispatched(run) =
                            {run.nodes[j] :
                                j \in 1 .. Min(run.i + batchSize,
                                               Len(run.nodes))}
            /\ run.pc = "saving"
                  => DOMAIN run.outcome = {run.nodes[j] : j \in units}

\* the call of the only unit of the second batch is in flight, after a
\* first batch of five units of which some failed and some were replaced
SecondBatchInFlight ==
    \E k \in 1 .. Len(runs) :
        /\ runs[k].pc = "batching"
        /\ runs[k].i = batchSize
        /\ Len(runs[k].nodes) = batchSize + 1
        /\ InFlight(runs[k]) = {runs[k].nodes[batchSize + 1]}
        /\ \E n, m \in DOMAIN runs[k].outcome :
              /\ runs[k].outcome[n].kind = "failed"
              /\ runs[k].outcome[m].kind = "applied"

\* C15: at most 5 remote calls of the content script are outstanding.
BoundedOutboundCalls ==
    Cardinality({<< k, n >> \in (1 .. Len(runs)) \X DOMAIN text :
                    n \in InFlight(runs[k])}) <= batchSize

\* C16: while the first run of a page is executing and restoreOriginal
\* has not been called, every unit that was dispatched, settled or with
\* its call in flight, has an entry in originalTexts that holds the text
\* the unit displayed before it was dispatched.
OriginalRetained ==
    \A k \in 1 .. Len(runs) :
        (accepted = 1 /\ ~runs[k].restored)
            => \A n \in Dispatched(runs[k]) :
                  /\ n \in DOMAIN originalTexts
                  /\ originalTexts[n] = page[n]

\* C17: a rejected get or set of the storage is tolerated.  A run whose
\* saveToStorage is rejected still returns success and leaves isActive
\* false and the in-memory cache as it was; a rejected get of either
\* loadFromStorage leaves the in-memory cache as it was; a simplify request
\* whose saveToStorage is rejected is still answered from the in-memory
\* cache on a hit, and on a miss still sets the entry in the in-memory
\* cache and is answered with success; a clearCache whose saveToStorage is
\* rejected still empties the in-memory cache and is answered with success.
StorageOutageTolerated ==
    [][ /\ \A k \in RunIds :
              ReturnRun(k, FALSE)
                  => reply'.success /\ ~isActive' /\ cache' = cache
        /\ LoadFromStorage(FALSE) => cache' = cache
        /\ bgLoadFromStorage(FALSE) => bgCache' = bgCache
        /\ \A txt \in RequestTexts :
              handleSimplifyRequestStart(txt, "easy", FALSE)
                /\ Has(bgCache, CacheKey("easy", txt))
                  => /\ bgCache' = bgCache
                     /\ bgPending' =
                           Append(bgPending,
                                  Suspended(txt, "easy", "saveToStorage",
                                            Get(bgCache,
                                                CacheKey("easy", txt))))
        /\ \A i \in 1 .. Len(bgPending) :
              handleSimplifyRequestAnswer(i)
                  => bgReply'.success /\ bgReply'.cacheHit
        /\ \A i \in 1 .. Len(bgPending) :
              handleSimplifyRequestFinish(
                  i, [ok |-> TRUE, output |-> TextSimple], FALSE)
                  => /\ bgReply' = SimplifyReply(TRUE, FALSE, TextSimple)
                     /\ Has(bgCache', CacheKey(bgPending[i].mode,
                                               bgPending[i].text))
        /\ clearCache(FALSE)
              => bgReply' = ClearReply(TRUE) /\ bgCache' = <<>>
      ]_vars

\* a run has returned success with its new entry in the in-memory cache
\* while the storage holds no record, and a simplify request that missed
\* has been answered with success and has its entry in the in-memory cache
\* while the storage still holds the record of before the service worker
\* started
OutageSurvived ==
    /\ last.stage = 1
    /\ reply.success
    /\ DOMAIN cache # {}
    /\ storage = NoRecord
    /\ bgReply = SimplifyReply(TRUE, FALSE, TextSimple)
    /\ Has(bgCache, CacheKey("easy", TextHaus))
    /\ bgStorage = StoredRecord(1)

\* C18: the persisted cache record is written after every cache change as
\* part of the same operation: once a remote call of a run has settled
\* with a new text, the chrome.storage.local record holds the entry that
\* was set for it, while the run is still executing.
PersistedAfterEverySet ==
    \A k \in 1 .. Len(runs) :
        \A n \in DOMAIN runs[k].calls \cap DOMAIN runs[k].outcome :
            (runs[k].calls[n].pc = "settled"
                /\ runs[k].outcome[n].kind = "applied")
                => LET cacheKey == CacheKey(runs[k].mode,
                                            runs[k].calls[n].originalText)
                   IN  /\ storage.present
                       /\ cacheKey \in DOMAIN storage.entries
                       /\ storage.entries[cacheKey] = runs[k].outcome[n].value

\* C19: once a run has returned, the stats record of chrome.storage.local
\* holds the counters the run returned, until the next run is accepted.
StatsPersisted ==
    last.stage >= 1
        => storedStats.present /\ storedStats.stats = last.stats

\* C20: after a restoreOriginal that follows a returned run, and until the
\* next simplifyPage is accepted, this.stats, which getStats reports, holds
\* the counters the run returned.
RestoreKeepsStats == last.stage = 2 => stats = last.stats

\* C21: getStats succeeds in every run state and changes no state: in the
\* content script it answers { success: true, stats: this.stats } and in
\* the service worker { success: true, stats: this.getStats() }, and
\* nothing but the answer changes.  Two getStats answers of the content
\* script with no run started or executing between them hold equal
\* counters: no step changes this.stats unless a simplifyPage invocation
\* is executing or is accepted in that step.
GetStatsIsSafe ==
    [][ /\ statsReply' # statsReply
            => /\ statsReply' = [success |-> TRUE, stats |-> stats]
               /\ UNCHANGED << tag, ancestors, text, originalTexts, isActive,
                               cache, stats, runs, storage, loading, page,
                               last, accepted, reply, storedStats, cleared >>
        /\ bgStatsReply' # bgStatsReply
            => /\ bgStatsReply' =
                      [success |-> TRUE, stats |-> getStats(bgStats, bgCache)]
               /\ UNCHANGED << bgCache, bgStats, bgStorage, bgLoading,
                               bgPending, bgReply, bgTouched, bgOp >>
        /\ (runs = <<>> /\ accepted' = accepted) => stats' = stats
      ]_vars

\* getStats of the content script was answered with the counters of a run
\* that simplified a unit, which has returned and was restored, and the
\* counters are still those; getStats of the service worker was answered
\* after one request
StatsAskedAfterRun ==
    /\ statsReply.success
    /\ statsReply.stats.textsSimplified = 1
    /\ last.stage = 2
    /\ runs = <<>>
    /\ stats = statsReply.stats
    /\ bgStatsReply.success
    /\ bgStatsReply.stats.totalRequests = 1

\* C22: no counter decreases from one state to the next, in the service
\* worker never and in the content script unless a simplifyPage invocation
\* is accepted in that step.
CountersMonotone ==
    [][ /\ bgStats'.totalRequests >= bgStats.totalRequests
        /\ bgStats'.totalCacheHits >= bgStats.totalCacheHits
        /\ bgStats'.totalErrors >= bgStats.totalErrors
        /\ accepted' = accepted
            => /\ stats'.textsSimplified >= stats.textsSimplified
               /\ stats'.cacheHits >= stats.cacheHits
               /\ stats'.errors >= stats.errors
      ]_vars

\* the texts the content script can dispatch: the trimmed texts of the page
\* and what the remote service makes of them
DispatchedTexts == {Trim(page[n]) : n \in DOMAIN page} \cup {TextSimple}

ScanSkipsDescendants ==
    \A k \in 1 .. Len(runs) :
        \A j \in 1 .. Len(runs[k].nodes) :
            LET n == runs[k].nodes[j]
            IN  /\ tag[n] \notin SkippedTags
                /\ \A a \in 1 .. Len(ancestors[n]) :
                      ancestors[n][a] \notin SkippedTags

\* the text node passes the filter conditions: its parent is none of the
\* skipped elements, its trimmed text has at least 15 code units and holds
\* a German letter or one of the German words
Qualifies(n) ==
    /\ tag[n] \notin SkippedTags
    /\ Len(Trim(text[n])) >= 15
    /\ \/ \E i \in 1 .. Len(Trim(text[n])) : Trim(text[n])[i] \in GermanChars
       \/ \E w \in GermanWords : ContainsWord(Trim(text[n]), w)

\* C27: the scan of an accepted simplifyPage yields only text nodes whose
\* trimmed text has at least 15 code units and passes the German
\* heuristic, yields every text node that passes the filter conditions
\* exactly once, and yields them in document order, so that the result is
\* determined by the document.
ScanYieldsQualifying ==
    [][ accepted' = accepted + 1
          => LET nodes == runs'[Len(runs')].nodes
             IN  /\ \A j \in 1 .. Len(nodes) : Qualifies(nodes[j])
                 /\ \A n \in DOMAIN text :
                       Qualifies(n)
                         => Cardinality({j \in 1 .. Len(nodes) :
                                            nodes[j] = n}) = 1
                 /\ \A i, j \in 1 .. Len(nodes) :
                       i < j => nodes[i] < nodes[j]
      ]_vars

\* a scan has yielded the sentence of 15 code units and left out the one of
\* 14 code units between blanks
ScannedAtThreshold ==
    /\ page[1] = TextFourteenPadded
    /\ page[2] = TextFifteen
    /\ tag[2] = "P"
    /\ \E k \in 1 .. Len(runs) : runs[k].nodes = << 2 >>

RunsTerminate ==
    /\ (runs # <<>>) ~> (runs = <<>>)
    /\ isActive ~> ~isActive

\* every simplifyPage the model admits was accepted and has returned, the
\* last of them after a remote call that failed, and isActive is false
AllRunsReturned ==
    /\ accepted = MaxRuns
    /\ last.stage = 1
    /\ last.nodes # <<>>
    /\ last.kind = "none"
    /\ reply.success
    /\ runs = <<>>
    /\ ~isActive

\* the units of the k-th run that are dispatched in this step: those that
\* are settled from the cache and those whose remote call is issued
DispatchedNow(k) ==
    LET old == IF k <= Len(runs) THEN runs[k] ELSE NewRun
    IN  ((DOMAIN runs'[k].outcome \ DOMAIN old.outcome)
            \cup InFlight(runs'[k])) \ InFlight(old)

\* in the content script, a unit's remote call is issued exactly when the
\* cache holds no entry for its key as it is dispatched; otherwise the
\* cached value is its text and its outcome in the same step, and the
\* step counts one cache hit for each such unit
ContentDispatchFollowsCache ==
    Len(runs') >= Len(runs)
        => /\ \A k \in 1 .. Len(runs') :
                \A n \in DispatchedNow(k) :
                    LET cacheKey == CacheKey(runs'[k].mode, Trim(text[n]))
                    IN  /\ n \in InFlight(runs'[k])
                            <=> cacheKey \notin DOMAIN cache'
                        /\ n \notin InFlight(runs'[k])
                            => /\ runs'[k].outcome[n]
                                      = Outcome("hit", cache'[cacheKey])
                               /\ text'[n] = cache'[cacheKey]
           /\ \A k \in 1 .. Len(runs') :
                DispatchedNow(k) # {}
                    => stats'.cacheHits
                         = (IF accepted' = accepted THEN stats.cacheHits
                            ELSE 0)
                           + Cardinality(DispatchedNow(k)
                                             \ InFlight(runs'[k]))

\* in the service worker, callAPI is called for a request exactly when the
\* cache holds no entry for its key; otherwise one cache hit is counted
\* and the answer holds the value the cache held at the lookup
ServiceDispatchFollowsCache ==
    /\ bgStats'.totalRequests = bgStats.totalRequests + 1
          => LET request == bgPending'[Len(bgPending')]
                 cacheKey == CacheKey(request.mode, request.text)
             IN  /\ Len(bgPending') = Len(bgPending) + 1
                 /\ request.pc = "callAPI" <=> ~Has(bgCache, cacheKey)
                 /\ bgStats'.totalCacheHits
                      = bgStats.totalCacheHits
                          + (IF Has(bgCache, cacheKey) THEN 1 ELSE 0)
    /\ \A i \in 1 .. Len(bgPending) :
          handleSimplifyRequestAnswer(i)
              => bgReply' = SimplifyReply(TRUE, TRUE, bgPending[i].found)

\* C28: a remote call is issued for a unit if and only if the cache holds
\* no entry for the unit's key at the moment of dispatch; on a hit the
\* cached value is applied with no suspension between the lookup and the
\* application, and the hit is recorded once.
CacheDecidesDispatch ==
    [][ContentDispatchFollowsCache /\ ServiceDispatchFollowsCache]_vars

\* the output of a 200 response is in the cache under the key of unit n of
\* the k-th run, is the text of the unit, and is counted once
WrittenThrough(k, n, resp) ==
    LET cacheKey == CacheKey(runs[k].mode, runs[k].calls[n].originalText)
    IN  /\ cacheKey \in DOMAIN cache'
        /\ cache'[cacheKey] = resp.output
        /\ text'[n] = resp.output
        /\ stats'.textsSimplified = stats.textsSimplified + 1

\* a 200 response whose output simplifyNode does not take as a
\* simplification
Unusable(k, n, resp) ==
    resp.output = <<>> \/ resp.output = runs[k].calls[n].originalText

\* C29 as stated: whenever a unit's remote call returns successfully, the
\* returned output is written to the cache under the unit's key, becomes
\* the unit's displayed text, and the processed counter increases by one.
WriteThroughOnSuccess ==
    [][\A k \in RunIds : \A n \in Nodes :
          \A resp \in Responses(TextHaus) \cup Responses(TextShort) :
              SettleCall(k, n, resp) /\ resp.ok
                  => WrittenThrough(k, n, resp)]_vars

\* C29, amended: whenever a unit's remote call returns 200 with a
\* non-empty output different from the unit's trimmed text, the output is
\* written to the cache under the unit's key, becomes the unit's
\* displayed text, and textsSimplified increases by one; a 200 with an
\* empty output or with the unit's own text leaves the cache and
\* textsSimplified as they are.
WriteThroughOnNewText ==
    [][\A k \in RunIds : \A n \in Nodes :
          \A resp \in Responses(TextHaus) \cup Responses(TextShort) :
              SettleCall(k, n, resp) /\ resp.ok
                  => IF Unusable(k, n, resp)
                     THEN /\ cache' = cache
                          /\ stats'.textsSimplified = stats.textsSimplified
                     ELSE WrittenThrough(k, n, resp)]_vars

\* a remote call has returned a new text, which is in the cache under
\* the unit's key and is the unit's text, while the other unit's 200
\* response was not usable and was not counted
WrittenThroughOnce ==
    \E k \in 1 .. Len(runs) :
        \E n, m \in DOMAIN runs[k].outcome :
            LET cacheKey == CacheKey(runs[k].mode, Trim(page[n]))
            IN  /\ runs[k].outcome[n].kind = "applied"
                /\ runs[k].outcome[m].kind = "unchanged"
                /\ cacheKey \in DOMAIN cache
                /\ cache[cacheKey] = text[n]
                /\ text[n] = TextSimple
                /\ stats.textsSimplified = 1

\* a remote call of the content script that failed leaves the cache as it
\* was, and the unit is settled with the text it had
FailedCallLeavesCache ==
    \A k \in RunIds : \A n \in Nodes :
        SettleCall(k, n, CallFailed)
            => /\ cache' = cache
               /\ n \in Failed(runs'[k])
               /\ n \notin InFlight(runs'[k])

\* a call of the service worker that failed leaves its cache and its
\* stored record as they were, and the request is answered as a failure
FailedRequestLeavesCache ==
    \A i \in 1 .. MaxPending :
        handleSimplifyRequestFinish(i, CallFailed, TRUE)
            => /\ bgCache' = bgCache
               /\ bgStorage' = bgStorage
               /\ ~bgReply'.success
               /\ Len(bgPending') = Len(bgPending) - 1

\* a unit whose call failed stays failed as long as its run executes: no
\* further call is issued for it in that run
NotRetried ==
    Len(runs') >= Len(runs)
        => \A k \in 1 .. Len(runs) :
              /\ Failed(runs[k]) \subseteq Failed(runs'[k])
              /\ Failed(runs'[k]) \cap InFlight(runs'[k]) = {}

\* a run that is accepted after a unit's call failed, with the cache still
\* without the unit's key, issues the remote call for that unit
CalledAgain ==
    accepted' = accepted + 1
        => \A k \in 1 .. Len(runs) : \A n \in Failed(runs[k]) :
              CacheKey("easy", Trim(text[n])) \notin DOMAIN cache
                  => n \in InFlight(runs'[Len(runs')])

CleanupIsAtomic ==
    [][/\ (cleanupCache(TRUE) /\ bgPending # <<>>)
           => /\ Len(bgCache') = Min(Len(bgCache), maxCacheSize)
              /\ bgCache' = SubSeq(bgCache, Len(bgCache) - Len(bgCache') + 1,
                                   Len(bgCache))
              /\ bgPending' = bgPending
       /\ \A i \in 1 .. Len(bgPending) :
              handleSimplifyRequestFinish(i, [ok |-> TRUE,
                                              output |-> TextSimple], TRUE)
                  => LET cacheKey == CacheKey(bgPending[i].mode,
                                              bgPending[i].text)
                     IN  /\ Has(bgCache', cacheKey)
                         /\ Get(bgCache', cacheKey) = TextSimple
                         /\ Len(bgCache') >= Min(Len(bgCache), CacheLimit)
      ]_vars

\* the alarm has fired while a request was waiting for the remote service,
\* and cleanupCache has cut the cache from above 500 entries to 500
CleanedWhileSuspended ==
    /\ bgOp = "cleanup"
    /\ \E i \in 1 .. Len(bgPending) : bgPending[i].pc = "callAPI"
    /\ Len(bgCache) = maxCacheSize
    /\ bgStorage.hasCache
    /\ Len(bgStorage.entries) = maxCacheSize

\* C32: the original-text mapping keeps the earliest original.  A unit
\* that has an entry when a run is accepted, which it has when an earlier
\* run touched it and restoreOriginal was not called since, keeps that
\* entry, so that restoreOriginal returns it to the text it displayed
\* before the first of those runs.
KeepsEarliestOriginal ==
    [][accepted' = accepted + 1
          => \A n \in DOMAIN originalTexts :
                /\ n \in DOMAIN originalTexts'
                /\ originalTexts'[n] = originalTexts[n]]_vars

\* C33: whenever isActive is false, no remote call issued by simplifyNode
\* is in flight and no batch loop of a simplifyPage is pending.
IdleMeansQuiescent ==
    ~isActive
        => \A k \in 1 .. Len(runs) :
              /\ InFlight(runs[k]) = {}
              /\ runs[k].pc # "batching"

\* C34: textsSimplified + errors is at most the number of units scanned by
\* the most recently accepted run.  While every accepted run is still
\* executing, that run is the last one of runs.
CountsOnlyOwnUnits ==
    (runs # <<>> /\ Len(runs) = accepted)
        => stats.textsSimplified + stats.errors
              <= Len(runs[Len(runs)].nodes)

\* C35: a cache hit applies only a value the remote service returned for
\* the same mode and exactly the same text.  In the first run of a script
\* that found no stored record every cache entry was written by a call of
\* this run, so every unit settled from the cache displays the output of
\* the call of a unit with the same text.
HitAppliesOwnOutput ==
    (accepted = 1 /\ Len(runs) = 1)
        => \A n \in DOMAIN runs[1].outcome :
              runs[1].outcome[n].kind = "hit"
                  => \E m \in DOMAIN runs[1].outcome :
                        /\ runs[1].outcome[m].kind = "applied"
                        /\ Trim(page[m]) = Trim(page[n])
                        /\ runs[1].outcome[m].value = runs[1].outcome[n].value

\* C36: initialization does not lose writes.  Every entry that is in the
\* in-memory cache when the constructor's loadFromStorage resolves is in
\* it afterwards, in the content script and in the service worker.
LoadKeepsWrites ==
    [][/\ LoadFromStorage(TRUE)
           => \A key \in DOMAIN cache :
                 key \in DOMAIN cache' /\ cache'[key] = cache[key]
       /\ bgLoadFromStorage(TRUE)
           => \A key \in Keys(bgCache) :
                 Has(bgCache', key)
                    /\ Get(bgCache', key) = Get(bgCache, key)]_vars

\* C37: no lost update on the shared record.  An entry that is in the
\* record translationCache is still in it after the content script or the
\* service worker persists.
NoLostUpdate ==
    [][\A key \in DOMAIN storage.entries :
          /\ key \in DOMAIN storage'.entries
          /\ storage'.entries[key] = storage.entries[key]]_vars

\* the units of a run for which a remote call was issued
Called(run) ==
    InFlight(run)
        \cup {n \in DOMAIN run.outcome : run.outcome[n].kind # "hit"}

\* C38: deduplication across batches.  In the first run of a page, a unit
\* whose text is that of a unit of an earlier batch whose result was
\* cached has no remote call in flight, and two units with the same text
\* for which a remote call was issued are units of one batch.
DedupAcrossBatches ==
    \A k \in 1 .. Len(runs) :
        accepted = 1
            => \A i, j \in 1 .. Len(runs[k].nodes) :
                  LET m == runs[k].nodes[i]
                      n == runs[k].nodes[j]
                  IN  (BatchOf(i) < BatchOf(j)
                          /\ Trim(page[m]) = Trim(page[n]))
                         => /\ (m \in DOMAIN runs[k].outcome
                                  /\ runs[k].outcome[m].kind = "applied")
                               => n \notin InFlight(runs[k])
                            /\ ~(m \in Called(runs[k])
                                   /\ n \in Called(runs[k]))

\* C39: cacheHits <= textsSimplified in the content script, and
\* totalCacheHits + totalErrors <= totalRequests in the service worker,
\* whose getStats then reports a cacheHitRate between 0 and 100 (in
\* tenths of a percent), given stored counters that satisfy the relation.
CountersConsistent ==
    /\ stats.cacheHits <= stats.textsSimplified
    /\ bgStats.totalCacheHits + bgStats.totalErrors <= bgStats.totalRequests
    /\ getStats(bgStats, bgCache).cacheHitRate \in 0 .. 1000

\* the content script has settled a unit from its cache, and the service
\* worker has loaded its stored counters and answers a request from its
\* cache while another request is pending: every request it counts is a
\* cache hit
HitsCounted ==
    /\ stats.cacheHits > 0
    /\ bgLoading.pc = "done"
    /\ bgOp = "answer"
    /\ bgStats.totalCacheHits = bgStats.totalRequests
    /\ bgStats.totalRequests > 1
    /\ bgPending # <<>>

====
